---- MODULE Spec2Model ----
(***************************************************************************)
(* A model of farm_dashboard.py: the advisory heuristics, the forecast      *)
(* aggregator, the advisor render pipeline and the CSV-backed account       *)
(* store with its activity log.                                             *)
(*                                                                          *)
(* Numbers: advisory inputs are integers (degrees C, percent, mm).          *)
(* Irrigation amounts are carried in thousandths of a mm/day and returned   *)
(* in hundredths (round(x, 2)).  Message strings are the code's strings     *)
(* without their leading emoji.  Python's None is the empty tuple and a     *)
(* present value v is <<v>>.                                                *)
(***************************************************************************)
EXTENDS Integers, Sequences, FiniteSets, TLC

VARIABLES
    tavg, hum, rain3d,          \* advisory inputs: None or Some(v) (lines 411-413)
    yscore, pest, irr, crop_msg,\* advisory results (lines 415-418)
    adv_done,                   \* TRUE once the four advisory functions returned
    run_advisor,                \* st.session_state["run_advisor"] of each session (line 381)
    rpc,                        \* position of the current render in lines 386-418
    geo, raw,                   \* results of geocode_place and fetch_forecast
    df3h, dfd,                  \* the two frames to_frames returns
    calls,                      \* components called so far in the current render
    users_csv,                  \* rows of users.csv, as written text
    log_csv,                    \* rows of user_activity_log.csv, as written text
    session,                    \* st.session_state of each browser session
    clock,                      \* datetime.now(), in seconds
    logged,                     \* calls of log_activity that have read the clock
    shown,                      \* what each session's last dashboard run displayed
    pc,                         \* where each session's running handler stands
    loc                         \* what that handler holds in local variables

advVars == <<tavg, hum, rain3d, yscore, pest, irr, crop_msg, adv_done>>
runVars == <<rpc, geo, raw, df3h, dfd, calls>>
renderVars == <<run_advisor, runVars>>
accountVars == <<users_csv, log_csv, session, clock, logged, logged, shown, pc, loc>>
vars == <<advVars, renderVars, accountVars>>

-----------------------------------------------------------------------------
(* Bounds of the input domains. *)
MaxTemp == 34
MaxHum == 100
MaxRain == 85
MaxEntries == 3     \* entries of one forecast list
MaxDay == 2         \* calendar days a forecast list can touch
MaxUsers == 2       \* rows of users.csv
MaxLog == 3         \* calls of log_activity in one behaviour

None == <<>>
Some(v) == <<v>>
IsNone(x) == x = None
Val(x) == x[1]

Max(a, b) == IF a >= b THEN a ELSE b
Min(a, b) == IF a <= b THEN a ELSE b

(* Values on and next to every threshold of the heuristics, some far away. *)
Temps == {-3, 0} \cup (16..MaxTemp)
Hums == {h \in 0..MaxHum : h % 5 \in {0, 1, 4}}
Rains == {-1} \cup {r \in 0..MaxRain : r % 5 \in {0, 1, 4}}

-----------------------------------------------------------------------------
(* Advisory engine, lines 284-352. *)

NO_DATA == "Data not available"
RICE_MAIZE == "Best fit: Rice / Maize"
PULSES_GROUNDNUT == "Best fit: Pulses / Groundnut"
WHEAT_BARLEY == "Best fit: Wheat / Barley"
VEG_MILLETS == "Mixed conditions -> Consider Vegetables / Millets"
IRRIGATION_TIP == "Irrigate in early morning; avoid evening irrigation if humidity is high."
PEST_HIGH == "High risk: consider spacing, better airflow, and preventive fungicide if advised locally."
PEST_MEDIUM == "Medium risk: monitor closely; avoid late watering; remove infected leaves."
PEST_LOW == "Low risk: keep normal hygiene and watch weather changes."

AnyNone(a, b, c) == IsNone(a) \/ IsNone(b) \/ IsNone(c)

crop_recommendation_strict(avg_temp, avg_hum, rain_total) ==
    IF AnyNone(avg_temp, avg_hum, rain_total) THEN NO_DATA
    ELSE LET t == Val(avg_temp)  h == Val(avg_hum)  r == Val(rain_total) IN
         IF t > 26 /\ r >= 40 /\ h >= 60 THEN RICE_MAIZE
         ELSE IF 20 <= t /\ t < 26 /\ 20 <= r /\ r < 60 /\ 40 <= h /\ h <= 75
             THEN PULSES_GROUNDNUT
         ELSE IF t < 20 /\ r < 20 THEN WHEAT_BARLEY
         ELSE VEG_MILLETS

crop_recommendation(avg_temp, avg_hum, rain_total) ==
    IF AnyNone(avg_temp, avg_hum, rain_total) THEN NO_DATA
    ELSE LET t == Val(avg_temp)  h == Val(avg_hum)  r == Val(rain_total) IN
         IF t >= 26 /\ r >= 40 /\ h >= 60 THEN RICE_MAIZE
         ELSE IF 20 <= t /\ t < 26 /\ 20 <= r /\ r < 60 /\ 40 <= h /\ h <= 75
             THEN PULSES_GROUNDNUT
         ELSE IF t < 20 /\ r < 20 THEN WHEAT_BARLEY
         ELSE VEG_MILLETS

(* 2^e modulo 1000 *)
RECURSIVE Pow2Mod1000(_)
Pow2Mod1000(e) == IF e = 0 THEN 1 ELSE (2 * Pow2Mod1000(e - 1)) % 1000

(* Doublings that take x >= 1 to 1000 or above, halvings that take it below *)
(* 2000: together the binary exponent of x/1000.                            *)
RECURSIVE UpShift(_)
UpShift(x) == IF x >= 1000 THEN 0 ELSE 1 + UpShift(2 * x)
RECURSIVE DownShift(_)
DownShift(x) == IF x < 2000 THEN 0 ELSE 1 + DownShift(x \div 2)

(* The float x/1000 is m * 2^-e with a 53-bit m, the integer nearest to     *)
(* x * 2^e / 1000.  The remainder of x * 2^e by 1000 tells on which side of *)
(* x/1000 the float lies: 0 when it is exact, below 500 when the float is   *)
(* the smaller, above 500 when it is the greater (500 itself cannot occur,  *)
(* x * 2^e being a multiple of 8).                                          *)
FloatSide(x) ==
    LET e == 52 + UpShift(x) - DownShift(x)
        r == ((x % 1000) * Pow2Mod1000(e)) % 1000
    IN  IF r = 0 THEN 0 ELSE IF r < 500 THEN -1 ELSE 1

(* round(x, 2) of the float nearest to x thousandths, result in hundredths. *)
(* round() rounds the exact value of the float, so x.xx5 is a tie (taken to *)
(* the even neighbour) only when the float is exact; otherwise it goes to   *)
(* the side the float lies on.  x is never negative here.                   *)
Round2(x) ==
    LET q == x \div 10
        d == x % 10
    IN  IF d < 5 THEN q
        ELSE IF d > 5 THEN q + 1
        ELSE IF FloatSide(x) < 0 THEN q
        ELSE IF FloatSide(x) > 0 THEN q + 1
        ELSE IF q % 2 = 0 THEN q ELSE q + 1

irrigation_advice_nodiv(t_avg, humidity, rain_next_days) ==
    IF AnyNone(t_avg, humidity, rain_next_days) THEN <<0, NO_DATA>>
    ELSE LET base == Max(0, 350 * Val(t_avg) - 120 * Val(humidity))
             rain_term == (600 * Val(rain_next_days)) \div 3
             mm_day == Max(0, base - rain_term)
         IN  <<Round2(mm_day), IRRIGATION_TIP>>

(* 0.35*tavg, 0.12*(humidity/10) and 0.6*(rain/3.0) in thousandths; both    *)
(* divisions are exact.                                                     *)
irrigation_advice(t_avg, humidity, rain_next_days) ==
    IF AnyNone(t_avg, humidity, rain_next_days) THEN <<0, NO_DATA>>
    ELSE LET base == Max(0, 350 * Val(t_avg) - (120 * Val(humidity)) \div 10)
             rain_term == (600 * Val(rain_next_days)) \div 3
             mm_day == Max(0, base - rain_term)
         IN  <<Round2(mm_day), IRRIGATION_TIP>>

PestMessage(score) ==
    IF score >= 70 THEN PEST_HIGH
    ELSE IF score >= 40 THEN PEST_MEDIUM
    ELSE PEST_LOW

pest_disease_risk_elif(t_avg, humidity, rain_total) ==
    IF AnyNone(t_avg, humidity, rain_total) THEN <<0, NO_DATA>>
    ELSE LET t == Val(t_avg)  h == Val(humidity)  r == Val(rain_total)
             score == IF 20 <= t /\ t <= 30 THEN 35
                      ELSE IF h >= 75 THEN 40
                      ELSE IF r >= 20 THEN 25
                      ELSE 0
         IN  <<Min(100, score), PestMessage(Min(100, score))>>

pest_disease_risk(t_avg, humidity, rain_total) ==
    IF AnyNone(t_avg, humidity, rain_total) THEN <<0, NO_DATA>>
    ELSE LET t == Val(t_avg)  h == Val(humidity)  r == Val(rain_total)
             s1 == IF 20 <= t /\ t <= 30 THEN 35 ELSE 0
             s2 == s1 + (IF h >= 75 THEN 40 ELSE 0)
             s3 == s2 + (IF r >= 20 THEN 25 ELSE 0)
             score == Min(100, s3)
         IN  <<score, PestMessage(score)>>

yield_potential_index_poor0(t_avg, humidity, rain_total) ==
    IF AnyNone(t_avg, humidity, rain_total) THEN 0
    ELSE LET t == Val(t_avg)  h == Val(humidity)  r == Val(rain_total)
             st == IF 22 <= t /\ t <= 28 THEN 45
                   ELSE IF (18 <= t /\ t < 22) \/ (28 < t /\ t <= 32) THEN 30
                   ELSE 0
             sh == IF 50 <= h /\ h <= 75 THEN 30
                   ELSE IF (40 <= h /\ h < 50) \/ (75 < h /\ h <= 85) THEN 20
                   ELSE 0
             sr == IF 10 <= r /\ r <= 40 THEN 25
                   ELSE IF (0 <= r /\ r < 10) \/ (40 < r /\ r <= 80) THEN 15
                   ELSE 0
         IN  Min(100, st + sh + sr)

yield_potential_index_badband(t_avg, humidity, rain_total) ==
    IF AnyNone(t_avg, humidity, rain_total) THEN 0
    ELSE LET t == Val(t_avg)  h == Val(humidity)  r == Val(rain_total)
             st == IF 22 <= t /\ t <= 28 THEN 45
                   ELSE IF (18 <= t /\ t < 22) \/ (28 < t /\ t <= 32) THEN 30
                   ELSE 15
             sh == IF 50 <= h /\ h <= 75 THEN 30
                   ELSE IF (40 <= h /\ h < 50) \/ (75 < h /\ h <= 85) THEN 20
                   ELSE 10
             sr == IF 10 <= r /\ r < 40 THEN 25
                   ELSE IF (0 <= r /\ r < 10) \/ (40 < r /\ r <= 80) THEN 15
                   ELSE 5
         IN  Min(100, st + sh + sr)

yield_potential_index(t_avg, humidity, rain_total) ==
    IF AnyNone(t_avg, humidity, rain_total) THEN 0
    ELSE LET t == Val(t_avg)  h == Val(humidity)  r == Val(rain_total)
             st == IF 22 <= t /\ t <= 28 THEN 45
                   ELSE IF (18 <= t /\ t < 22) \/ (28 < t /\ t <= 32) THEN 30
                   ELSE 15
             sh == IF 50 <= h /\ h <= 75 THEN 30
                   ELSE IF (40 <= h /\ h < 50) \/ (75 < h /\ h <= 85) THEN 20
                   ELSE 10
             sr == IF 10 <= r /\ r <= 40 THEN 25
                   ELSE IF (0 <= r /\ r < 10) \/ (40 < r /\ r <= 80) THEN 15
                   ELSE 5
         IN  Min(100, st + sh + sr)

-----------------------------------------------------------------------------
(* State before anything ran: lines 25-29 and 58-63. *)

Sessions == {"s1", "s2"}

FreshSession == [logged_in |-> FALSE, is_admin |-> FALSE, user_email |-> None]

(* A session whose script is not running holds no local variables. *)
NoLocals == [args |-> <<>>, df |-> <<>>, now |-> 0]

AdvisoryIdle ==
    /\ tavg = None /\ hum = None /\ rain3d = None
    /\ yscore = 0 /\ pest = <<0, "">> /\ irr = <<0, "">> /\ crop_msg = ""
    /\ adv_done = FALSE

RenderIdle ==
    /\ run_advisor = [s \in Sessions |-> FALSE]
    /\ rpc = "idle"
    /\ geo = None /\ raw = None /\ df3h = <<>> /\ dfd = <<>>
    /\ calls = <<>>

AccountsIdle ==
    /\ users_csv = <<>>
    /\ log_csv = <<>>
    /\ session = [s \in Sessions |-> FreshSession]
    /\ clock = 0
    /\ logged = 0
    /\ shown = [s \in Sessions |-> <<>>]
    /\ pc = [s \in Sessions |-> "idle"]
    /\ loc = [s \in Sessions |-> NoLocals]

-----------------------------------------------------------------------------
(* The advisory functions applied to directly drawn inputs. *)

OptTemps == {None} \cup {Some(t) : t \in Temps}
OptHums == {None} \cup {Some(h) : h \in Hums}
OptRains == {None} \cup {Some(r) : r \in Rains}

InitAdvisory ==
    /\ tavg \in OptTemps
    /\ hum \in OptHums
    /\ rain3d \in OptRains
    /\ yscore = 0
    /\ pest = <<0, "">>
    /\ irr = <<0, "">>
    /\ crop_msg = ""
    /\ adv_done = FALSE
    /\ RenderIdle
    /\ AccountsIdle

(* Lines 415-418. *)
CallAdvisory ==
    /\ ~adv_done
    /\ yscore' = yield_potential_index(tavg, hum, rain3d)
    /\ pest' = pest_disease_risk(tavg, hum, rain3d)
    /\ irr' = irrigation_advice(tavg, hum, rain3d)
    /\ crop_msg' = crop_recommendation(tavg, hum, rain3d)
    /\ adv_done' = TRUE
    /\ UNCHANGED <<tavg, hum, rain3d>>
    /\ UNCHANGED <<renderVars, accountVars>>

NextAdvisory == CallAdvisory

SpecAdvisory == InitAdvisory /\ [][NextAdvisory]_vars

-----------------------------------------------------------------------------
(* Aggregator, lines 255-279.  A forecast entry carries dt_txt as           *)
(* <<day, hour>>, temp, humidity, wind and an optional rain["3h"]; the      *)
(* weather category and description are carried through unread and are     *)
(* left out.  All means of the drawn forecasts are integers (ExactMeans).   *)

RECURSIVE SumSeq(_)
SumSeq(s) == IF s = <<>> THEN 0 ELSE Head(s) + SumSeq(Tail(s))

RECURSIVE MinSeq(_)
MinSeq(s) == IF Len(s) = 1 THEN s[1] ELSE Min(Head(s), MinSeq(Tail(s)))

RECURSIVE MaxSeq(_)
MaxSeq(s) == IF Len(s) = 1 THEN s[1] ELSE Max(Head(s), MaxSeq(Tail(s)))

Mean(s) == SumSeq(s) \div Len(s)
MeanIsExact(s) == SumSeq(s) % Len(s) = 0

RECURSIVE SortAsc(_)
SortAsc(S) ==
    IF S = {} THEN <<>>
    ELSE LET m == CHOOSE x \in S : \A y \in S : x <= y
         IN  <<m>> \o SortAsc(S \ {m})

Column(df, name) == [i \in 1..Len(df) |-> df[i][name]]

(* pd.to_datetime(time).dt.date *)
DateOf(dt_txt) == dt_txt[1]

(* it.get("rain", {}).get("3h", 0.0) *)
Rain3h(it) == IF IsNone(it.rain) THEN 0 ELSE Val(it.rain)

Row3h(it) ==
    [time |-> it.dt_txt, temp |-> it.temp, humidity |-> it.humidity,
     wind |-> it.wind, rain_3h |-> Rain3h(it), date |-> DateOf(it.dt_txt)]

DailyRow_rainmean(df, d) ==
    LET g == SelectSeq(df, LAMBDA row : row.date = d) IN
    [date |-> d,
     tmin |-> MinSeq(Column(g, "temp")),
     tmax |-> MaxSeq(Column(g, "temp")),
     tavg |-> Mean(Column(g, "temp")),
     humidity_mean |-> Mean(Column(g, "humidity")),
     wind_mean |-> Mean(Column(g, "wind")),
     rain_total |-> Mean(Column(g, "rain_3h"))]

(* One row of df3h.groupby("date").agg(...) *)
DailyRow(df, d) ==
    LET g == SelectSeq(df, LAMBDA row : row.date = d) IN
    [date |-> d,
     tmin |-> MinSeq(Column(g, "temp")),
     tmax |-> MaxSeq(Column(g, "temp")),
     tavg |-> Mean(Column(g, "temp")),
     humidity_mean |-> Mean(Column(g, "humidity")),
     wind_mean |-> Mean(Column(g, "wind")),
     rain_total |-> SumSeq(Column(g, "rain_3h"))]

(* groupby sorts the group keys, so the rows come in ascending date. *)
GroupByDate(df) ==
    LET keys == SortAsc({df[i].date : i \in 1..Len(df)})
    IN  [k \in 1..Len(keys) |-> DailyRow(df, keys[k])]

(* to_frames(forecast_json) for a non-empty list: <<df3h, dfd>>.  On an     *)
(* empty list the frame has no "time" column and line 270 raises KeyError.  *)
to_frames(list) ==
    LET frame == [i \in 1..Len(list) |-> Row3h(list[i])]
    IN  <<frame, GroupByDate(frame)>>

Head3(df) == SubSeq(df, 1, Min(3, Len(df)))

-----------------------------------------------------------------------------
(* Forecast lists the forecast service can return: chronological, at most   *)
(* MaxEntries entries on days 1..MaxDay.                                    *)

Hours == {0, 21}
Stamps == (1..MaxDay) \X Hours
StampKey(dt) == dt[1] * 24 + dt[2]
Readings == [temp : {12, 36}, humidity : {60}, wind : {6},
             rain : {None, Some(30)}]

StampSeq(S) ==
    LET keys == SortAsc({StampKey(dt) : dt \in S})
    IN  [i \in 1..Len(keys) |-> CHOOSE dt \in S : StampKey(dt) = keys[i]]

Entry(dt, v) ==
    [dt_txt |-> dt, temp |-> v.temp, humidity |-> v.humidity,
     wind |-> v.wind, rain |-> v.rain]

ForecastsOn(ts) ==
    {[i \in 1..Len(ts) |-> Entry(ts[i], v[i])] : v \in [1..Len(ts) -> Readings]}

ExactMeans(list) ==
    LET daily == to_frames(list)[2]
        next3 == Head3(daily)
    IN  /\ \A i \in 1..Len(list) :
              LET g == SelectSeq(list,
                         LAMBDA it : DateOf(it.dt_txt) = DateOf(list[i].dt_txt))
              IN  /\ MeanIsExact([j \in 1..Len(g) |-> g[j].temp])
                  /\ MeanIsExact([j \in 1..Len(g) |-> g[j].humidity])
                  /\ MeanIsExact([j \in 1..Len(g) |-> g[j].wind])
        /\ MeanIsExact(Column(next3, "tavg"))
        /\ MeanIsExact(Column(next3, "humidity_mean"))

Forecasts ==
    {<<>>} \cup
    {f \in UNION {ForecastsOn(StampSeq(S)) :
                    S \in {T \in SUBSET Stamps : T # {} /\ Cardinality(T) <= MaxEntries}} :
        ExactMeans(f)}

(* A call that ends in an exception instead of a result: requests.get      *)
(* raising (timeout, no connection), a body that is not JSON, a match       *)
(* without lat or lon.                                                      *)
RAISES == <<"raises", "Exception">>
Raised(result) == Len(result) = 2

GeoResults == {None, Some(<<11, 79, "Kumbakonam, Tamil Nadu, IN">>), RAISES}
FetchResults == {None, RAISES} \cup {Some(f) : f \in Forecasts}

-----------------------------------------------------------------------------
(* One render of the advisor, lines 388-418: the steps after the run of a   *)
(* logged-in session has passed line 386 with run_advisor set.              *)

AfterGeocode_nostop(g) == "fetch"
(* Lines 392-396: an exception of geocode_place ends the run, st.stop()     *)
(* ends it when the place was not found.                                    *)
AfterGeocode(g) ==
    IF Raised(g) THEN "crashed" ELSE IF IsNone(g) THEN "stopped" ELSE "fetch"

(* Lines 401-405: an exception of fetch_forecast ends the run, st.stop()    *)
(* ends it when the forecast is unavailable.                                *)
AfterFetch(f) ==
    IF Raised(f) THEN "crashed" ELSE IF IsNone(f) THEN "stopped" ELSE "frames"

(* Lines 391-398. *)
Geocode(result) ==
    /\ rpc = "geocode"
    /\ geo' = IF Raised(result) THEN geo ELSE result
    /\ calls' = Append(calls, "geocode_place")
    /\ rpc' = AfterGeocode(result)
    /\ UNCHANGED <<run_advisor, raw, df3h, dfd>>
    /\ UNCHANGED <<advVars, accountVars>>

(* Lines 400-404. *)
Fetch(result) ==
    /\ rpc = "fetch"
    /\ raw' = IF Raised(result) THEN raw ELSE result
    /\ calls' = Append(calls, "fetch_forecast")
    /\ rpc' = AfterFetch(result)
    /\ UNCHANGED <<run_advisor, geo, df3h, dfd>>
    /\ UNCHANGED <<advVars, accountVars>>

(* Line 405. *)
ToFrames ==
    /\ rpc = "frames"
    /\ calls' = Append(calls, "to_frames")
    /\ IF Val(raw) = <<>>
       THEN /\ rpc' = "crashed"
            /\ UNCHANGED <<df3h, dfd>>
       ELSE /\ df3h' = to_frames(Val(raw))[1]
            /\ dfd' = to_frames(Val(raw))[2]
            /\ rpc' = "advise"
    /\ UNCHANGED <<run_advisor, geo, raw>>
    /\ UNCHANGED <<advVars, accountVars>>

(* Lines 410-418. *)
Advise ==
    /\ rpc = "advise"
    /\ LET next3 == Head3(dfd)
           t == IF next3 # <<>> THEN Some(Mean(Column(next3, "tavg"))) ELSE None
           h == IF next3 # <<>> THEN Some(Mean(Column(next3, "humidity_mean"))) ELSE None
           r == IF next3 # <<>> THEN Some(SumSeq(Column(next3, "rain_total"))) ELSE None
       IN  /\ tavg' = t /\ hum' = h /\ rain3d' = r
           /\ yscore' = yield_potential_index(t, h, r)
           /\ pest' = pest_disease_risk(t, h, r)
           /\ irr' = irrigation_advice(t, h, r)
           /\ crop_msg' = crop_recommendation(t, h, r)
    /\ adv_done' = TRUE
    /\ calls' = Append(calls, "advisory")
    /\ rpc' = "shown"
    /\ UNCHANGED <<run_advisor, geo, raw, df3h, dfd>>
    /\ UNCHANGED accountVars


-----------------------------------------------------------------------------
(* Account store, lines 19-55.  A CSV file is the sequence of its data      *)
(* rows, each cell the text to_csv wrote.  read_csv infers a type for       *)
(* every column and turns every NA token into NaN, so a cell read back is   *)
(* a typed value: a string, NaN, an integer or a float.                     *)

ADMIN_EMAIL == "ms.sarveshmadhavv@gmail.com"
ADMIN_PASSWORD == "sarvesh21"

USER_COLUMNS == {"name", "email", "phone", "password"}
LOG_COLUMNS == {"timestamp", "name", "email", "phone", "action"}

Str(s) == [k |-> "str", s |-> s]
NaN == [k |-> "nan"]
IntV(n) == [k |-> "int", n |-> n]
FloatV(n) == [k |-> "float", n |-> n]

(* Tokens read_csv takes for a missing value by default. *)
NA_VALUES ==
    {"", "#N/A", "#N/A N/A", "#NA", "-1.#IND", "-1.#QNAN", "-NaN", "-nan",
     "1.#IND", "1.#QNAN", "<NA>", "N/A", "NA", "NULL", "NaN", "None", "n/a",
     "nan", "null"}
(* The numeric texts that occur in the drawn inputs and their rewritings. *)
IntTexts == {"98765"}
FloatTexts == {"98765.0"}
NumberOf(text) == 98765

(* One column as read_csv returns it: int64 when every cell is an integer,  *)
(* float64 when every cell is a number or missing, else object with the     *)
(* text kept and NaN for the missing cells.                                 *)
ReadColumn(texts) ==
    IF \A i \in 1..Len(texts) : texts[i] \in IntTexts
        THEN [i \in 1..Len(texts) |-> IntV(NumberOf(texts[i]))]
    ELSE IF \A i \in 1..Len(texts) : texts[i] \in IntTexts \cup FloatTexts \cup NA_VALUES
        THEN [i \in 1..Len(texts) |->
                 IF texts[i] \in NA_VALUES THEN NaN ELSE FloatV(NumberOf(texts[i]))]
    ELSE [i \in 1..Len(texts) |->
                 IF texts[i] \in NA_VALUES THEN NaN ELSE Str(texts[i])]

read_csv(file, columns) ==
    [i \in 1..Len(file) |->
        [c \in columns |-> ReadColumn([j \in 1..Len(file) |-> file[j][c]])[i]]]

(* load_users, lines 32-33 *)
load_users(file) == read_csv(file, USER_COLUMNS)

IsIntColumn(col) == col # <<>> /\ \A i \in 1..Len(col) : col[i].k = "int"
IsFloatColumn(col) == col # <<>> /\ \A i \in 1..Len(col) : col[i].k \in {"float", "nan"}

AsFloat(v) == IF v.k = "int" THEN FloatV(v.n) ELSE v

(* pd.concat([df, one_row], ignore_index=True) on one column: two numeric   *)
(* parts give their common numeric type, anything else keeps the values.    *)
ConcatColumn(col, v) ==
    IF col = <<>> THEN <<v>>
    ELSE IF IsIntColumn(col) /\ v.k \in {"float", "nan"}
        THEN [i \in 1..Len(col) |-> AsFloat(col[i])] \o <<v>>
    ELSE IF IsFloatColumn(col) /\ v.k = "int"
        THEN col \o <<AsFloat(v)>>
    ELSE col \o <<v>>

concat(df, new_row, columns) ==
    [i \in 1..Len(df) + 1 |->
        [c \in columns |-> ConcatColumn([j \in 1..Len(df) |-> df[j][c]], new_row[c])[i]]]

(* The text to_csv writes for one value. *)
Format(v) ==
    CASE v.k = "str" -> v.s
      [] v.k = "nan" -> ""
      [] v.k = "int" -> ToString(v.n)
      [] v.k = "float" -> ToString(v.n) \o ".0"

to_csv(df, columns) ==
    [i \in 1..Len(df) |-> [c \in columns |-> Format(df[i][c])]]

(* save_user, lines 35-38: the new file. *)
save_user(file, name, email, phone, password) ==
    to_csv(concat(load_users(file),
                  [name |-> Str(name), email |-> Str(email),
                   phone |-> Str(phone), password |-> Str(password)],
                  USER_COLUMNS),
           USER_COLUMNS)

(* check_user, lines 40-42 *)
check_user(file, email, password) ==
    LET df == load_users(file) IN
    \E i \in 1..Len(df) : df[i].email = Str(email) /\ df[i].password = Str(password)

(* get_user_by_email, lines 44-49: None or the first matching row. *)
get_user_by_email(file, email) ==
    LET df == load_users(file)
        hits == {i \in 1..Len(df) : df[i].email = Str(email)}
    IN  IF hits = {} THEN None
        ELSE Some(df[CHOOSE i \in hits : \A j \in hits : i <= j])

(* datetime.now().strftime("%Y-%m-%d %H:%M:%S") at second `now` *)
strftime(now) == "2025-01-01 00:00:0" \o ToString(now)

(* log_activity, lines 51-55: the new file; name, email and phone are the   *)
(* values the caller holds.                                                 *)
log_activity(file, now, name, email, phone, action) ==
    to_csv(concat(read_csv(file, LOG_COLUMNS),
                  [timestamp |-> Str(strftime(now)), name |-> name, email |-> email,
                   phone |-> phone, action |-> Str(action)],
                  LOG_COLUMNS),
           LOG_COLUMNS)

(* email_r in df["email"].values, line 108 *)
EmailRegistered(file, email_r) ==
    LET df == load_users(file) IN
    \E i \in 1..Len(df) : df[i].email = Str(email_r)

-----------------------------------------------------------------------------
(* Handlers of the login page and of the dashboard, lines 66-200.  Every    *)
(* browser session runs the script in a thread of its own and nothing locks *)
(* the two files, so a handler is a sequence of steps, one for each read or *)
(* write of a file, and the steps of different sessions interleave.  pc is  *)
(* the step a session is about to take, loc what it holds meanwhile: the    *)
(* arguments of the call in progress, the file content it has read and the  *)
(* time it has taken from the clock.                                        *)

LoginOutcome_registry_first(file, email, password) ==
    IF check_user(file, email, password) THEN "user"
    ELSE IF email = ADMIN_EMAIL /\ password = ADMIN_PASSWORD THEN "admin"
    ELSE "invalid"

(* Lines 77, 86 and 93: which branch of the login handler runs. *)
LoginOutcome(file, email, password) ==
    IF email = ADMIN_EMAIL /\ password = ADMIN_PASSWORD THEN "admin"
    ELSE IF check_user(file, email, password) THEN "user"
    ELSE "invalid"

(* What a run shows when it subscripts None (lines 91 and 180). *)
TYPE_ERROR == <<"TypeError: 'NoneType' object is not subscriptable">>

(* Calls of log_activity still to read the clock in running handlers; a     *)
(* handler that may write to the log starts only while one more call is     *)
(* within the bound.                                                        *)
LogCallsAhead ==
    Cardinality({s \in Sessions :
                    pc[s] \in {"login_get", "logout_get", "log_read", "log_stamp"}})
CanLog == logged + LogCallsAhead < MaxLog

(* Calls of save_user under way; a registration starts only while the       *)
(* registry has room for its row.                                           *)
SavesAhead == Cardinality({s \in Sessions : pc[s] \in {"save_read", "save_write"}})
CanSave == Len(users_csv) + SavesAhead < MaxUsers

(* The arguments of a call of log_activity. *)
LogArgs(name, email, phone, action) ==
    [name |-> name, email |-> email, phone |-> phone, action |-> action]

(* Lines 74-89: the Login button up to the first file access after the      *)
(* branch is chosen.  check_user (line 86) reads users.csv in this step.    *)
Login(s, email, password) ==
    /\ pc[s] = "idle"
    /\ ~session[s].logged_in
    /\ CanLog
    /\ LET outcome == LoginOutcome(users_csv, email, password) IN
       CASE outcome = "admin" ->
              /\ session' = [session EXCEPT ![s] =
                    [logged_in |-> TRUE, is_admin |-> TRUE, user_email |-> Some(email)]]
              /\ pc' = [pc EXCEPT ![s] = "log_read"]
              /\ loc' = [loc EXCEPT ![s].args =
                    LogArgs(Str("Admin"), Str(ADMIN_EMAIL), Str(""), "login")]
         [] outcome = "user" ->
              /\ session' = [session EXCEPT ![s].logged_in = TRUE,
                                            ![s].user_email = Some(email)]
              /\ pc' = [pc EXCEPT ![s] = "login_get"]
              /\ UNCHANGED loc
         [] outcome = "invalid" ->
              UNCHANGED <<session, pc, loc>>
    /\ UNCHANGED <<users_csv, log_csv, clock, logged, shown>>
    /\ UNCHANGED <<advVars, renderVars>>

(* Lines 90-91: get_user_by_email reads users.csv again; without a row the  *)
(* subscript of line 91 raises and the run ends, the session logged in.     *)
LoginGetUser(s) ==
    /\ pc[s] = "login_get"
    /\ LET user == get_user_by_email(users_csv, Val(session[s].user_email)) IN
       IF user = None
       THEN /\ shown' = [shown EXCEPT ![s] = TYPE_ERROR]
            /\ pc' = [pc EXCEPT ![s] = "idle"]
            /\ UNCHANGED loc
       ELSE /\ pc' = [pc EXCEPT ![s] = "log_read"]
            /\ loc' = [loc EXCEPT ![s].args =
                  LogArgs(Val(user).name, Val(user).email, Val(user).phone, "login")]
            /\ UNCHANGED shown
    /\ UNCHANGED <<users_csv, log_csv, session, clock, logged>>
    /\ UNCHANGED <<advVars, renderVars>>

(* Line 52: log_activity reads the log. *)
LogRead(s) ==
    /\ pc[s] = "log_read"
    /\ loc' = [loc EXCEPT ![s].df = log_csv]
    /\ pc' = [pc EXCEPT ![s] = "log_stamp"]
    /\ UNCHANGED <<users_csv, log_csv, session, clock, logged, shown>>
    /\ UNCHANGED <<advVars, renderVars>>

(* Line 53: datetime.now() for the new row; `passed` is the number of       *)
(* seconds gone by since the clock was last read.                           *)
LogStamp(s, passed) ==
    /\ pc[s] = "log_stamp"
    /\ clock' = clock + passed
    /\ logged' = logged + 1
    /\ loc' = [loc EXCEPT ![s].now = clock']
    /\ pc' = [pc EXCEPT ![s] = "log_write"]
    /\ UNCHANGED <<users_csv, log_csv, session, shown>>
    /\ UNCHANGED <<advVars, renderVars>>

(* Lines 54-55: log_activity writes what it read and the new row.  After a  *)
(* login st.rerun() (lines 83, 92) starts the dashboard run; after a logout *)
(* line 196 clears every key of the session state, run_advisor included,    *)
(* and lines 58-63 of the next run start from a fresh session.              *)
LogWrite(s) ==
    /\ pc[s] = "log_write"
    /\ LET a == loc[s].args IN
       /\ log_csv' = log_activity(loc[s].df, loc[s].now, a.name, a.email, a.phone,
                                  a.action)
       /\ IF a.action = "login"
          THEN /\ pc' = [pc EXCEPT ![s] = "dash"]
               /\ UNCHANGED <<session, shown, run_advisor>>
          ELSE /\ pc' = [pc EXCEPT ![s] = "idle"]
               /\ session' = [session EXCEPT ![s] = FreshSession]
               /\ run_advisor' = [run_advisor EXCEPT ![s] = FALSE]
               /\ shown' = [shown EXCEPT ![s] = <<"logged out">>]
    /\ loc' = [loc EXCEPT ![s] = NoLocals]
    /\ UNCHANGED <<users_csv, clock, logged>>
    /\ UNCHANGED <<advVars, runVars>>

(* Lines 103-108: the Register button; line 107 reads users.csv. *)
Register(s, name, email_r, phone, password_r) ==
    /\ pc[s] = "idle"
    /\ ~session[s].logged_in
    /\ IF name = "" \/ email_r = "" \/ password_r = ""
       THEN UNCHANGED <<pc, loc>>
       ELSE IF EmailRegistered(users_csv, email_r)
       THEN UNCHANGED <<pc, loc>>
       ELSE /\ CanSave
            /\ pc' = [pc EXCEPT ![s] = "save_read"]
            /\ loc' = [loc EXCEPT ![s].args =
                  [name |-> name, email |-> email_r,
                   phone |-> phone, password |-> password_r]]
    /\ UNCHANGED <<users_csv, log_csv, session, clock, logged, shown>>
    /\ UNCHANGED <<advVars, renderVars>>

(* Line 36: save_user reads users.csv. *)
SaveUserRead(s) ==
    /\ pc[s] = "save_read"
    /\ loc' = [loc EXCEPT ![s].df = users_csv]
    /\ pc' = [pc EXCEPT ![s] = "save_write"]
    /\ UNCHANGED <<users_csv, log_csv, session, clock, logged, shown>>
    /\ UNCHANGED <<advVars, renderVars>>

(* Lines 37-38: save_user writes what it read and the new row. *)
SaveUserWrite(s) ==
    /\ pc[s] = "save_write"
    /\ LET a == loc[s].args IN
       users_csv' = save_user(loc[s].df, a.name, a.email, a.phone, a.password)
    /\ pc' = [pc EXCEPT ![s] = "idle"]
    /\ loc' = [loc EXCEPT ![s] = NoLocals]
    /\ UNCHANGED <<log_csv, session, clock, logged, shown>>
    /\ UNCHANGED <<advVars, renderVars>>

(* Lines 117-151: a run of the administrator's dashboard with Reset All App *)
(* Data pressed, up to the rewriting of users.csv with the header only.     *)
ResetAll(s) ==
    /\ pc[s] = "idle"
    /\ session[s].logged_in
    /\ session[s].is_admin
    /\ users_csv' = <<>>
    /\ shown' = [shown EXCEPT ![s] = <<"admin">>]
    /\ pc' = [pc EXCEPT ![s] = "reset_log"]
    /\ UNCHANGED <<log_csv, session, clock, logged, loc>>
    /\ UNCHANGED <<advVars, renderVars>>

(* Lines 376-387: the Run Advisor button sets run_advisor, line 386 reads   *)
(* it.  API_KEY is a non-empty constant, so the check of line 387 never     *)
(* stops.                                                                   *)
StartAdvisor(s, clicked) ==
    /\ run_advisor' = [run_advisor EXCEPT ![s] = @ \/ clicked]
    /\ rpc' = IF run_advisor'[s] THEN "geocode" ELSE "idle"
    /\ geo' = None /\ raw' = None /\ df3h' = <<>> /\ dfd' = <<>>
    /\ calls' = <<>>
    /\ tavg' = None /\ hum' = None /\ rain3d' = None
    /\ yscore' = 0 /\ pest' = <<0, "">> /\ irr' = <<0, "">> /\ crop_msg' = ""
    /\ adv_done' = FALSE

(* Lines 153-154: the log is rewritten with the header only; the Logout     *)
(* button is not pressed, so the run goes on to line 376.                   *)
ResetAllLog(s) ==
    /\ pc[s] = "reset_log"
    /\ log_csv' = <<>>
    /\ pc' = [pc EXCEPT ![s] = "idle"]
    /\ StartAdvisor(s, FALSE)
    /\ UNCHANGED <<users_csv, session, clock, logged, shown, loc>>

(* The text an f-string or st.write shows for a value read from the file. *)
Display(v) ==
    CASE v.k = "str" -> v.s
      [] v.k = "nan" -> "nan"
      [] v.k = "int" -> ToString(v.n)
      [] v.k = "float" -> ToString(v.n) \o ".0"

(* Line 182: user['phone'] or the em dash, written here as "--", shown for  *)
(* a falsy value.                                                           *)
PhoneOrDash(v) ==
    IF \/ (v.k = "str" /\ v.s = "")
       \/ (v.k \in {"int", "float"} /\ v.n = 0)
    THEN "--"
    ELSE Display(v)

(* Lines 177-182: the user dashboard subscripts the result of               *)
(* get_user_by_email without testing it for None.                           *)
UserDashboard(file, user_email) ==
    LET user == get_user_by_email(file, user_email) IN
    IF user = None THEN TYPE_ERROR
    ELSE <<"user", Display(Val(user).name), Display(Val(user).email),
           PhoneOrDash(Val(user).phone)>>

(* Lines 58-387: a run of the script of a logged-in session in which no    *)
(* button of lines 117-200 is pressed: the rerun a login ends with, the Run *)
(* Advisor button (clicked), or any other widget event.  A session that is  *)
(* not logged in ends at line 114 and never comes here.  Line 179 reads     *)
(* users.csv; without a row for the email the run ends at line 180, else it *)
(* goes on to the advisor.  One render is followed at a time.               *)
StartRender(s, clicked) ==
    /\ pc[s] \in {"idle", "dash"}
    /\ pc[s] = "dash" => ~clicked
    /\ session[s].logged_in
    /\ rpc \in {"idle", "stopped", "crashed", "shown"}
    /\ LET view == IF session[s].is_admin THEN <<"admin">>
                   ELSE UserDashboard(users_csv, Val(session[s].user_email))
       IN  /\ shown' = [shown EXCEPT ![s] = view]
           /\ IF view = TYPE_ERROR
              THEN UNCHANGED <<advVars, renderVars>>
              ELSE StartAdvisor(s, clicked)
    /\ pc' = [pc EXCEPT ![s] = "idle"]
    /\ UNCHANGED <<users_csv, log_csv, session, clock, logged, loc>>

(* The same run with no button pressed at all. *)
RenderDashboard(s) == StartRender(s, FALSE)

(* Lines 117-189: a run with the Logout button pressed, up to the first     *)
(* file access of the handler.  The run of a non-administrator passes lines *)
(* 177-182 first, so without a row for its email it ends there, with the    *)
(* session still logged in.                                                 *)
Logout(s) ==
    /\ pc[s] = "idle"
    /\ session[s].logged_in
    /\ CanLog
    /\ IF session[s].is_admin
       THEN /\ shown' = [shown EXCEPT ![s] = <<"admin">>]
            /\ pc' = [pc EXCEPT ![s] = "log_read"]
            /\ loc' = [loc EXCEPT ![s].args =
                  LogArgs(Str("Admin"), Str(ADMIN_EMAIL), Str(""), "logout")]
       ELSE LET view == UserDashboard(users_csv, Val(session[s].user_email)) IN
            /\ shown' = [shown EXCEPT ![s] = view]
            /\ pc' = [pc EXCEPT ![s] = IF view = TYPE_ERROR THEN "idle" ELSE "logout_get"]
            /\ UNCHANGED loc
    /\ UNCHANGED <<users_csv, log_csv, session, clock, logged>>
    /\ UNCHANGED <<advVars, renderVars>>

(* Lines 191-200: get_user_by_email reads users.csv again; without a row    *)
(* ("if user", line 192) nothing is logged and line 196 clears the session. *)
LogoutGetUser(s) ==
    /\ pc[s] = "logout_get"
    /\ LET user == get_user_by_email(users_csv, Val(session[s].user_email)) IN
       IF user = None
       THEN /\ pc' = [pc EXCEPT ![s] = "idle"]
            /\ session' = [session EXCEPT ![s] = FreshSession]
            /\ run_advisor' = [run_advisor EXCEPT ![s] = FALSE]
            /\ shown' = [shown EXCEPT ![s] = <<"logged out">>]
            /\ UNCHANGED loc
       ELSE /\ pc' = [pc EXCEPT ![s] = "log_read"]
            /\ loc' = [loc EXCEPT ![s].args =
                  LogArgs(Val(user).name, Val(user).email, Val(user).phone, "logout")]
            /\ UNCHANGED <<session, run_advisor, shown>>
    /\ UNCHANGED <<users_csv, log_csv, clock, logged>>
    /\ UNCHANGED <<advVars, runVars>>

InitAccounts == AdvisoryIdle /\ RenderIdle /\ AccountsIdle

(* Texts typed into the registration form alone. *)
RegNames == {"", "ann", "bob"}
RegEmails == {"", "a@x.in", "b@x.in", "NA"}
RegPhones == {"", "98765"}
RegPasswords == {"", "pw"}

AllIdle == \A s \in Sessions : pc[s] = "idle"

(* Registration attempts one after the other: an attempt starts when no     *)
(* other is under way.                                                      *)
NextRegister ==
    \/ \E s \in Sessions, name \in RegNames, email_r \in RegEmails,
          phone \in RegPhones, password_r \in RegPasswords :
           AllIdle /\ Register(s, name, email_r, phone, password_r)
    \/ \E s \in Sessions : SaveUserRead(s)
    \/ \E s \in Sessions : SaveUserWrite(s)

SpecRegister == InitAccounts /\ [][NextRegister]_vars

(* Texts typed into the forms when every handler is in play: accounts      *)
(* under the administrator's email, with the administrator's password or    *)
(* another one.                                                             *)
Names == {"ann"}
Emails == {ADMIN_EMAIL}
Phones == {"98765"}
Passwords == {"pw", ADMIN_PASSWORD}

NextAccounts ==
    \/ \E s \in Sessions, name \in Names, email_r \in Emails,
          phone \in Phones, password_r \in Passwords :
           Register(s, name, email_r, phone, password_r)
    \/ \E s \in Sessions : SaveUserRead(s)
    \/ \E s \in Sessions : SaveUserWrite(s)
    \/ \E s \in Sessions, email \in Emails, password \in Passwords :
           Login(s, email, password)
    \/ \E s \in Sessions : LoginGetUser(s)
    \/ \E s \in Sessions : LogRead(s)
    \/ \E s \in Sessions, passed \in {0, 1} : LogStamp(s, passed)
    \/ \E s \in Sessions : LogWrite(s)
    \/ \E s \in Sessions : RenderDashboard(s)
    \/ \E s \in Sessions : ResetAll(s)
    \/ \E s \in Sessions : ResetAllLog(s)
    \/ \E s \in Sessions : Logout(s)
    \/ \E s \in Sessions : LogoutGetUser(s)

SpecAccounts == InitAccounts /\ [][NextAccounts]_vars

(* The advisor in use: the first session is logged in as administrator (its *)
(* login is the one row of the log and its dashboard is on the screen), the *)
(* second is not logged in.                                                 *)
InitRender ==
    /\ AdvisoryIdle /\ RenderIdle
    /\ users_csv = <<>>
    /\ log_csv = log_activity(<<>>, 0, Str("Admin"), Str(ADMIN_EMAIL), Str(""), "login")
    /\ session = [s \in Sessions |->
                    IF s = "s1"
                    THEN [logged_in |-> TRUE, is_admin |-> TRUE,
                          user_email |-> Some(ADMIN_EMAIL)]
                    ELSE FreshSession]
    /\ clock = 0
    /\ logged = 1
    /\ shown = [s \in Sessions |-> IF s = "s1" THEN <<"admin">> ELSE <<>>]
    /\ pc = [s \in Sessions |-> "idle"]
    /\ loc = [s \in Sessions |-> NoLocals]

NextRender ==
    \/ \E s \in Sessions, clicked \in BOOLEAN : StartRender(s, clicked)
    \/ \E g \in GeoResults : Geocode(g)
    \/ \E f \in FetchResults : Fetch(f)
    \/ ToFrames
    \/ Advise

SpecRender == InitRender /\ [][NextRender]_vars

-----------------------------------------------------------------------------
(* Properties of the advisory engine, checked under SpecAdvisory. *)

AllPresent == ~AnyNone(tavg, hum, rain3d)

Rule1(t, h, r) == t >= 26 /\ r >= 40 /\ h >= 60
Rule2(t, h, r) == 20 <= t /\ t < 26 /\ 20 <= r /\ r < 60 /\ 40 <= h /\ h <= 75
Rule3(t, h, r) == t < 20 /\ r < 20

(* C1: for present inputs crop_recommendation returns the category of the   *)
(* first matching rule in the order Rice/Maize, Pulses/Groundnut,           *)
(* Wheat/Barley, else Vegetables/Millets; (27, 65, 50) gives Rice/Maize.    *)
C1_CropFirstMatch ==
    (adv_done /\ AllPresent) =>
        LET t == Val(tavg)  h == Val(hum)  r == Val(rain3d) IN
        /\ crop_msg \in {RICE_MAIZE, PULSES_GROUNDNUT, WHEAT_BARLEY, VEG_MILLETS}
        /\ (crop_msg = RICE_MAIZE) <=> Rule1(t, h, r)
        /\ (crop_msg = PULSES_GROUNDNUT) <=> (~Rule1(t, h, r) /\ Rule2(t, h, r))
        /\ (crop_msg = WHEAT_BARLEY) <=>
               (~Rule1(t, h, r) /\ ~Rule2(t, h, r) /\ Rule3(t, h, r))
        /\ (crop_msg = VEG_MILLETS) <=>
               (~Rule1(t, h, r) /\ ~Rule2(t, h, r) /\ ~Rule3(t, h, r))
        /\ (t = 27 /\ h = 65 /\ r = 50) => crop_msg = RICE_MAIZE

C1_Witness ==
    /\ adv_done
    /\ tavg = Some(27) /\ hum = Some(65) /\ rain3d = Some(50)
    /\ crop_msg = RICE_MAIZE

(* Bands of the claim: 2 best, 1 good, 0 poor. *)
TempBand(t) == IF 22 <= t /\ t <= 28 THEN 2 ELSE IF 18 <= t /\ t <= 32 THEN 1 ELSE 0
HumBand(h) == IF 50 <= h /\ h <= 75 THEN 2 ELSE IF 40 <= h /\ h <= 85 THEN 1 ELSE 0
RainBand(r) == IF 10 <= r /\ r <= 40 THEN 2 ELSE IF 0 <= r /\ r <= 80 THEN 1 ELSE 0

(* C2: for present inputs the yield potential index is an integer in        *)
(* 0..100, and moving one input to a better band with the other two fixed   *)
(* never lowers it.                                                         *)
C2_YieldRangeMonotone ==
    (adv_done /\ AllPresent) =>
        LET t == Val(tavg)  h == Val(hum)  r == Val(rain3d) IN
        /\ yscore \in 0..100
        /\ \A t2 \in Temps : TempBand(t2) > TempBand(t) =>
               yield_potential_index(Some(t2), hum, rain3d) >= yscore
        /\ \A h2 \in Hums : HumBand(h2) > HumBand(h) =>
               yield_potential_index(tavg, Some(h2), rain3d) >= yscore
        /\ \A r2 \in Rains : RainBand(r2) > RainBand(r) =>
               yield_potential_index(tavg, hum, Some(r2)) >= yscore

C2_Witness ==
    /\ adv_done
    /\ tavg = Some(20) /\ hum = Some(45) /\ rain3d = Some(85)
    /\ yscore = 55
    /\ yield_potential_index(Some(25), hum, rain3d) = 70
    /\ yield_potential_index(tavg, hum, Some(40)) = 75

(* C3: for present inputs irrigation_advice returns                        *)
(* max(0, max(0, 0.35*t - 0.012*h) - 0.6*(rain/3)) rounded to 2 decimals,   *)
(* never negative; irrigation_advice(25, 70, 30) is 1.91 mm/day.            *)
C3_IrrigationFormula ==
    (adv_done /\ AllPresent) =>
        LET t == Val(tavg)  h == Val(hum)  r == Val(rain3d)
            thousandths == Max(0, Max(0, 350 * t - 12 * h) - 200 * r)
        IN
        /\ irr[1] >= 0
        /\ 10 * irr[1] - 5 <= thousandths /\ thousandths <= 10 * irr[1] + 5
        /\ (t = 25 /\ h = 70 /\ r = 30) => irr[1] = 191

C3_Witness ==
    /\ adv_done
    /\ tavg = Some(25) /\ hum = Some(70) /\ rain3d = Some(30)
    /\ irr = <<191, IRRIGATION_TIP>>

(* C4: for present inputs pest_disease_risk returns the score               *)
(* min(100, 35*[20<=t<=30] + 40*[h>=75] + 25*[r>=20]) and the message of    *)
(* its band (high from 70, medium from 40, else low); (25, 80, 25) gives    *)
(* 100 and the high-risk message.                                           *)
C4_PestScoreAndBand ==
    (adv_done /\ AllPresent) =>
        LET t == Val(tavg)  h == Val(hum)  r == Val(rain3d)
            sum == (IF 20 <= t /\ t <= 30 THEN 35 ELSE 0)
                   + (IF h >= 75 THEN 40 ELSE 0)
                   + (IF r >= 20 THEN 25 ELSE 0)
        IN
        /\ pest[1] = Min(100, sum)
        /\ pest[1] >= 70 => pest[2] = PEST_HIGH
        /\ (40 <= pest[1] /\ pest[1] < 70) => pest[2] = PEST_MEDIUM
        /\ pest[1] < 40 => pest[2] = PEST_LOW
        /\ (t = 25 /\ h = 80 /\ r = 25) => pest = <<100, PEST_HIGH>>

C4_Witness ==
    /\ adv_done
    /\ tavg = Some(25) /\ hum = Some(80) /\ rain3d = Some(25)
    /\ pest = <<100, PEST_HIGH>>

(* C5: with at least one absent input each advisory function returns its   *)
(* no-data sentinel, and with three present inputs none of them returns    *)
(* its sentinel.                                                            *)
C5_SentinelDistinct ==
    adv_done =>
        /\ ~AllPresent =>
               /\ crop_msg = NO_DATA
               /\ irr = <<0, NO_DATA>>
               /\ pest = <<0, NO_DATA>>
               /\ yscore = 0
        /\ AllPresent =>
               /\ crop_msg # NO_DATA
               /\ irr # <<0, NO_DATA>>
               /\ pest # <<0, NO_DATA>>
               /\ yscore # 0

(* An absent humidity next to present readings, and the real zero reading. *)
C5_Witness ==
    /\ adv_done
    /\ \/ /\ tavg = Some(25) /\ IsNone(hum) /\ rain3d = Some(0)
          /\ yscore = 0 /\ irr = <<0, NO_DATA>>
       \/ /\ tavg = Some(0) /\ hum = Some(0) /\ rain3d = Some(0)
          /\ irr = <<0, IRRIGATION_TIP>> /\ yscore = 40

-----------------------------------------------------------------------------
(* Properties of the aggregator and of the render, checked under SpecRender. *)

FramesBuilt == rpc \in {"advise", "shown"}

EntriesOn(list, d) == {i \in 1..Len(list) : list[i].dt_txt[1] = d}

RECURSIVE RainOver(_, _)
RainOver(list, I) ==
    IF I = {} THEN 0
    ELSE LET i == CHOOSE j \in I : TRUE
         IN  (IF list[i].rain = None THEN 0 ELSE list[i].rain[1])
             + RainOver(list, I \ {i})

(* C6: for a non-empty chronological forecast list covering k calendar      *)
(* dates to_frames gives exactly k daily rows, one per date in ascending    *)
(* date order; each row's rain_total is the sum of that date's              *)
(* precipitation (an entry without it counts 0) and its tmin and tmax are   *)
(* the least and greatest temperature of the date; two dates give 2 rows.   *)
C6_DailyAggregates ==
    FramesBuilt =>
        LET list == Val(raw)
            days == {list[i].dt_txt[1] : i \in 1..Len(list)}
        IN
        /\ Len(dfd) = Cardinality(days)
        /\ Cardinality(days) = 2 => Len(dfd) = 2
        /\ {dfd[k].date : k \in 1..Len(dfd)} = days
        /\ \A k \in 1..Len(dfd) - 1 : dfd[k].date < dfd[k + 1].date
        /\ \A k \in 1..Len(dfd) :
               LET I == EntriesOn(list, dfd[k].date) IN
               /\ dfd[k].rain_total = RainOver(list, I)
               /\ \A i \in I : dfd[k].tmin <= list[i].temp /\ list[i].temp <= dfd[k].tmax
               /\ \E i \in I : dfd[k].tmin = list[i].temp
               /\ \E i \in I : dfd[k].tmax = list[i].temp

(* Two dates, the first with a dry entry without a rain field and a wet     *)
(* one, and different temperatures within the day.                          *)
C6_Witness ==
    /\ rpc = "shown"
    /\ Len(Val(raw)) = 3
    /\ Val(raw)[1].dt_txt[1] = 1 /\ Val(raw)[2].dt_txt[1] = 1 /\ Val(raw)[3].dt_txt[1] = 2
    /\ Val(raw)[1].rain = None /\ Val(raw)[2].rain = Some(30) /\ Val(raw)[3].rain = Some(30)
    /\ Val(raw)[1].temp = 36 /\ Val(raw)[2].temp = 12
    /\ Len(dfd) = 2
    /\ dfd[1].rain_total = 30 /\ dfd[1].tmin = 12 /\ dfd[1].tmax = 36

RenderOrder == <<"geocode_place", "fetch_forecast", "to_frames", "advisory">>

(* C10: within one render the components run in the order geocoder,         *)
(* forecast fetcher, aggregator, advisory engine; after a not-found         *)
(* geocoding nothing else runs, after an unavailable forecast neither the   *)
(* aggregator nor the advisory functions run, and the advisory functions    *)
(* run only after both lookups returned data.                               *)
C10_RenderOrderAndAbort ==
    /\ Len(calls) <= Len(RenderOrder)
    /\ calls = SubSeq(RenderOrder, 1, Len(calls))
    /\ (Len(calls) >= 1 /\ geo = None) =>
           (calls = <<"geocode_place">> /\ rpc \in {"stopped", "crashed"})
    /\ (Len(calls) >= 2 /\ raw = None) =>
           (calls = <<"geocode_place", "fetch_forecast">> /\ rpc \in {"stopped", "crashed"})
    /\ Len(calls) >= 2 => geo # None
    /\ Len(calls) >= 3 => (geo # None /\ raw # None)
    /\ adv_done => (calls = RenderOrder /\ geo # None /\ raw # None)
    /\ rpc = "stopped" => (~adv_done /\ (geo = None \/ raw = None))

C10_Witness ==
    /\ rpc = "stopped"
    /\ geo # None /\ raw = None
    /\ calls = <<"geocode_place", "fetch_forecast">>
    /\ ~adv_done /\ dfd = <<>>

-----------------------------------------------------------------------------
(* Properties of the account store, checked under SpecRegister and          *)
(* SpecAccounts.                                                            *)

OneRowPerEmail ==
    \A i, j \in 1..Len(users_csv) :
        users_csv[i].email = users_csv[j].email => i = j

(* C7: from an empty registry, after any sequence of completed              *)
(* registration attempts the registry holds at most one row per email: a    *)
(* registration whose email already has a row leaves the registry           *)
(* unchanged, and one with a new email and non-empty name, email and        *)
(* password appends exactly one row.                                        *)
C7_RegistryKeyedByEmail ==
    /\ []OneRowPerEmail
    /\ [][\A s \in Sessions, name \in RegNames \ {""}, email_r \in RegEmails \ {""},
             phone \in RegPhones, password_r \in RegPasswords \ {""} :
             Register(s, name, email_r, phone, password_r) =>
                 /\ users_csv' = users_csv
                 /\ IF \E i \in 1..Len(users_csv) : users_csv[i].email = email_r
                    THEN pc'[s] = "idle"
                    ELSE pc'[s] = "save_read"
        ]_vars
    /\ [][\A s \in Sessions :
             /\ SaveUserRead(s) => users_csv' = users_csv
             /\ SaveUserWrite(s) => users_csv' = Append(users_csv, loc[s].args)
        ]_vars

HasRowText(file, email, password) ==
    \E i \in 1..Len(file) : file[i].email = email /\ file[i].password = password

(* C8: a login with the administrator email and password yields a session   *)
(* with logged_in and is_admin true whatever the registry holds; a login    *)
(* with the administrator email and another password succeeds exactly when  *)
(* the registry has a row with that email and password, and never sets      *)
(* is_admin.                                                                *)
C8_AdminCheckedFirst ==
    [][\A s \in Sessions :
          /\ Login(s, ADMIN_EMAIL, ADMIN_PASSWORD) =>
                 /\ session'[s].logged_in
                 /\ session'[s].is_admin
                 /\ session'[s].user_email = Some(ADMIN_EMAIL)
          /\ \A pw \in Passwords \ {ADMIN_PASSWORD} :
                 Login(s, ADMIN_EMAIL, pw) =>
                     /\ ~session'[s].is_admin
                     /\ session'[s].logged_in <=> HasRowText(users_csv, ADMIN_EMAIL, pw)
      ]_vars

(* An administrator session, its login the last row of the log, while the  *)
(* registry holds a row with the administrator email and another password   *)
(* and a second session is logged in with that row, not as administrator.   *)
C8_Witness ==
    /\ Len(users_csv) = 1
    /\ users_csv[1].email = ADMIN_EMAIL
    /\ users_csv[1].password # ADMIN_PASSWORD
    /\ session["s1"] = [logged_in |-> TRUE, is_admin |-> TRUE,
                        user_email |-> Some(ADMIN_EMAIL)]
    /\ session["s2"] = [logged_in |-> TRUE, is_admin |-> FALSE,
                        user_email |-> Some(ADMIN_EMAIL)]
    /\ pc["s1"] = "idle" /\ pc["s2"] = "idle"
    /\ Len(log_csv) = 2
    /\ log_csv[2].name = "Admin"
    /\ log_csv[2].action = "login"

IsPrefix(a, b) == Len(a) <= Len(b) /\ SubSeq(b, 1, Len(a)) = a

(* C9 as stated: the activity log is append-only, every step leaves the     *)
(* log written so far as a prefix of the log after it.                      *)
C9_LogAppendOnly == [][IsPrefix(log_csv, log_csv')]_vars

(* C11: in every reachable state a session logged in as a                   *)
(* non-administrator has a row for its user_email in the registry, so a     *)
(* run of the user dashboard finds the account and never ends in the        *)
(* TypeError of subscripting None.                                          *)
C11_LoggedInUserHasRow ==
    \A s \in Sessions :
        /\ (session[s].logged_in /\ ~session[s].is_admin) =>
               get_user_by_email(users_csv, Val(session[s].user_email)) # None
        /\ shown[s] # TYPE_ERROR

====
